---- MODULE Spec2Model ----
(***************************************************************************)
(* A model of the `table` crate (src/src/lib.rs): the dynamically typed    *)
(* Value, the F64 wrapper and the Table (a HashMap<Value, Value>) with its *)
(* Hash, PartialEq, Borrow<str>, Index and IndexMut implementations.       *)
(*                                                                         *)
(* A Table is modelled by the sequence of its entries in the iteration     *)
(* order of the underlying HashMap.  A text is a sequence of bytes.  What  *)
(* a Value feeds into a Hasher is the byte stream of its writes.  The      *)
(* map's own hasher (SipHash keyed by the map's RandomState) is a keyed    *)
(* function from byte streams to a small range, standing for the part of   *)
(* the hash a lookup compares before it compares keys: which streams       *)
(* collide depends on the key.                                             *)
(***************************************************************************)
EXTENDS Integers, Sequences, FiniteSets, TLC

VARIABLES rs, tbl, res, slot, va, vb, cmp, pairs, left1, left2, t1, t2,
          assigned, heap, holder, observed, last

vars == <<rs, tbl, res, slot, va, vb, cmp, pairs, left1, left2, t1, t2,
          assigned, heap, holder, observed, last>>

-----------------------------------------------------------------------------
(* Bounds of the model.                                                    *)

\* Number of RandomState keys the map's hasher may be built with.
NumKeys == 2
\* Range of the abstracted hash.
HashRange == 11
\* Largest number of entries the table under test is grown to.
MaxEntries == 2
\* Largest integer index of the positional accesses.
MaxIndex == 2
\* Number of Arc handles of the shared-table scenario.
NumHolders == 2

-----------------------------------------------------------------------------
(* F64: the wrapper of a 64 bit float.  A float is "nan", or a finite      *)
(* number twice/2; -0.0 is the finite number 0 with the sign bit set.      *)

FNaN     == [nan |-> TRUE,  neg |-> FALSE, twice |-> 0]
FZero    == [nan |-> FALSE, neg |-> FALSE, twice |-> 0]
FNegZero == [nan |-> FALSE, neg |-> TRUE,  twice |-> 0]
FOne     == [nan |-> FALSE, neg |-> FALSE, twice |-> 2]
FOneHalf == [nan |-> FALSE, neg |-> FALSE, twice |-> 3]
FTwo     == [nan |-> FALSE, neg |-> FALSE, twice |-> 4]

\* #[derive(PartialEq)] on F64: f64's own ==, the IEEE comparison
\* (NaN differs from everything, -0.0 equals 0.0).
F64Eq(a, b) == ~a.nan /\ ~b.nan /\ a.twice = b.twice

\* `self.0 as u64`: truncation toward zero, saturating, NaN to 0.
F64AsU64(f) == IF f.nan \/ f.neg \/ f.twice < 0 THEN 0 ELSE f.twice \div 2

-----------------------------------------------------------------------------
(* Value: one record per variant.                                          *)

Null      == [tag |-> "Null"]
Bool(b)   == [tag |-> "Bool", b |-> b]
Usize(n)  == [tag |-> "Usize", n |-> n]
U64(n)    == [tag |-> "U64", n |-> n]
I64(n)    == [tag |-> "I64", n |-> n]
VF64(f)   == [tag |-> "F64", f |-> f]
String(s) == [tag |-> "String", s |-> s]
VTable(t) == [tag |-> "Table", t |-> t]

Entry(k, v) == [k |-> k, v |-> v]

\* Table::new / Table::with_capacity: no entries.
Table_new == << >>

\* The texts "" and "h".
EmptyText == << >>
TextH == <<104>>
TextW == <<119>>

-----------------------------------------------------------------------------
(* Hashing: the bytes a value writes into the hasher.                      *)

RECURSIVE LEBytes(_, _)
\* The w little-endian bytes of n (two's complement).
LEBytes(n, w) == IF w = 0 THEN << >> ELSE <<n % 256>> \o LEBytes(n \div 256, w - 1)

\* impl Hash for str: the bytes, then 0xff.
StrFeed(s) == s \o <<255>>

\* impl Hash for F64.
F64Feed(f) == LEBytes(F64AsU64(f), 8)

RECURSIVE ValueFeed(_)
RECURSIVE TableFeed(_)
\* impl Hash for Table: every key and value, in the map's iteration order.
TableFeed(t) ==
    IF t = << >> THEN << >>
    ELSE ValueFeed(Head(t).k) \o ValueFeed(Head(t).v) \o TableFeed(Tail(t))

\* impl Hash for Value.
ValueFeed(v) ==
    CASE v.tag = "String" -> StrFeed(v.s)
      [] v.tag = "Null"   -> LEBytes(0, 4)
      [] v.tag = "Bool"   -> <<IF v.b THEN 1 ELSE 0>>
      [] v.tag = "Usize"  -> LEBytes(v.n, 8)
      [] v.tag = "U64"    -> LEBytes(v.n, 8)
      [] v.tag = "I64"    -> LEBytes(v.n, 8)
      [] v.tag = "F64"    -> F64Feed(v.f)
      [] v.tag = "Table"  -> TableFeed(v.t)

RECURSIVE SipRounds(_, _, _)
\* The state of the map's hasher after the bytes i.. of feed, from state h.
SipRounds(h, feed, i) ==
    IF i > Len(feed) THEN h
    ELSE SipRounds((h * h + 7 * h + feed[i] + 1) % HashRange, feed, i + 1)

\* The hash the map built with RandomState key computes for a byte stream.
\* std's SipHash is a keyed function: two different streams collide under
\* some keys and not under others, and a lookup compares only a few bits of
\* the hash before it compares the keys.  HashRange stands for those bits.
MapHash(key, feed) == SipRounds(key, feed, 1)

-----------------------------------------------------------------------------
(* Equality and lookup.                                                    *)

\* impl Borrow<str> for Value.
Borrow(v) == IF v.tag = "String" THEN v.s ELSE EmptyText

Min(S) == CHOOSE x \in S : \A y \in S : x <= y

RECURSIVE ValueEq(_, _)
RECURSIVE TableEq(_, _)
RECURSIVE FindValue(_, _)

\* HashMap's search by a &Value: the entries whose key has the hash of q
\* and equals q.
FindValue(t, q) ==
    {i \in DOMAIN t : /\ ValueEq(t[i].k, q)
                      /\ MapHash(rs, ValueFeed(t[i].k)) = MapHash(rs, ValueFeed(q))}

\* #[derive(PartialEq)] on Table: HashMap's ==, same length and every entry
\* of x found in y (by y's lookup) with an equal value.
TableEq(x, y) ==
    /\ Len(x) = Len(y)
    /\ \A i \in DOMAIN x :
          LET f == FindValue(y, x[i].k)
          IN f # {} /\ ValueEq(x[i].v, y[Min(f)].v)

\* #[derive(PartialEq)] on Value: same variant and equal payloads.
ValueEq(a, b) ==
    /\ a.tag = b.tag
    /\ CASE a.tag = "Null"   -> TRUE
         [] a.tag = "Bool"   -> a.b = b.b
         [] a.tag = "Usize"  -> a.n = b.n
         [] a.tag = "U64"    -> a.n = b.n
         [] a.tag = "I64"    -> a.n = b.n
         [] a.tag = "F64"    -> F64Eq(a.f, b.f)
         [] a.tag = "String" -> a.s = b.s
         [] a.tag = "Table"  -> TableEq(a.t, b.t)

\* HashMap's search by a &str (K: Borrow<str>): the entries whose key has
\* the hash of the text and borrows as the text.
FindStr(t, s) ==
    {i \in DOMAIN t : /\ Borrow(t[i].k) = s
                      /\ MapHash(rs, ValueFeed(t[i].k)) = MapHash(rs, StrFeed(s))}

\* The table with entry e at position pos of the iteration order (the
\* order of a HashMap is arbitrary: a new entry may take any position).
InsertAt(t, pos, e) == SubSeq(t, 1, pos - 1) \o <<e>> \o SubSeq(t, pos, Len(t))

\* HashMap::insert (through DerefMut): the value of an equal key is
\* replaced, a new key takes the place pos of the iteration order.
MapInsert(t, k, v, pos) ==
    LET f == FindValue(t, k)
    IN IF f # {} THEN [t EXCEPT ![Min(f)].v = v] ELSE InsertAt(t, pos, Entry(k, v))

\* The key of the positional accesses: Value::Usize(index).
UsizeKey(i) == Usize(i)

\* The key the text write-index inserts: Value::String(Arc::new(text)).
StrKey(s) == String(s)

-----------------------------------------------------------------------------
(* The inputs of the operations.                                           *)

Texts == {EmptyText, TextH}
Indices == 0 .. MaxIndex

\* Two tables with the same two entries, iterated in the two orders.
TableAB == <<Entry(Usize(0), Null), Entry(Usize(1), Null)>>
TableBA == <<Entry(Usize(1), Null), Entry(Usize(0), Null)>>

Keys == {Null, VF64(FNaN), String(EmptyText), VTable(TableAB), VTable(TableBA)}
Vals == {String(TextW), VF64(FOne)}

-----------------------------------------------------------------------------
(* One table under test: tbl, the hasher key rs of its map, the outcome    *)
(* res of the last operation and slot, the entry a live &mut Value         *)
(* returned by index_mut points to (0: none).                              *)

Res(op, key, out, val, hit) ==
    [op |-> op, key |-> key, out |-> out, val |-> val, hit |-> hit]

\* unwrap() on None: the panic ends the program.
Panicked == res.out = "panic"

\* No &mut borrow of the table is live and the program runs.
Idle == slot = 0 /\ ~Panicked

\* table.insert(k, v)
Insert(k, v, cap) ==
    /\ Idle
    /\ LET f == FindValue(tbl, k)
       IN IF f # {}
          THEN /\ tbl' = MapInsert(tbl, k, v, 1)
               /\ res' = Res("insert", k, "some", tbl[Min(f)].v, Min(f))
          ELSE /\ Len(tbl) < cap
               /\ \E pos \in 1 .. Len(tbl) + 1 :
                     /\ tbl' = MapInsert(tbl, k, v, pos)
                     /\ res' = Res("insert", k, "none", Null, pos)
    /\ UNCHANGED <<rs, slot>>

\* table.get(&k)
GetValue(k) ==
    /\ Idle
    /\ LET f == FindValue(tbl, k)
       IN res' = IF f = {} THEN Res("get", k, "none", Null, 0)
                 ELSE Res("get", k, "some", tbl[Min(f)].v, Min(f))
    /\ UNCHANGED <<rs, tbl, slot>>

\* table.get(s) with a text
GetStr(s) ==
    /\ Idle
    /\ IF FindStr(tbl, s) = {}
       THEN res' = Res("get_str", StrKey(s), "none", Null, 0)
       ELSE \E i \in FindStr(tbl, s) :
               res' = Res("get_str", StrKey(s), "some", tbl[i].v, i)
    /\ UNCHANGED <<rs, tbl, slot>>

\* table.contains_key(s) with a text
ContainsKeyStr(s) ==
    /\ Idle
    /\ IF FindStr(tbl, s) = {}
       THEN res' = Res("contains_key_str", StrKey(s), "false", Null, 0)
       ELSE \E i \in FindStr(tbl, s) :
               res' = Res("contains_key_str", StrKey(s), "true", Null, i)
    /\ UNCHANGED <<rs, tbl, slot>>

\* The read of table[..] by a Value key: self.0.get(&key).unwrap()
IndexByKey(op, k) ==
    /\ Idle
    /\ LET f == FindValue(tbl, k)
       IN res' = IF f = {} THEN Res(op, k, "panic", Null, 0)
                 ELSE Res(op, k, "some", tbl[Min(f)].v, Min(f))
    /\ UNCHANGED <<rs, tbl, slot>>

\* impl Index<Value> for Table
IndexValue(k) == IndexByKey("index_value", k)

\* A read that looks the index up as a Value::U64.
IndexUsizeU64(i) == IndexByKey("index_usize", U64(i))

\* impl Index<usize> for Table
IndexUsize(i) == IndexByKey("index_usize", UsizeKey(i))

\* impl Index<&str> for Table: self.0.get(index).unwrap()
IndexStr(s) ==
    /\ Idle
    /\ IF FindStr(tbl, s) = {}
       THEN res' = Res("index_str", StrKey(s), "panic", Null, 0)
       ELSE \E i \in FindStr(tbl, s) :
               res' = Res("index_str", StrKey(s), "some", tbl[i].v, i)
    /\ UNCHANGED <<rs, tbl, slot>>

\* index_mut by a Value key: entry(key) inserts Null when vacant, then
\* get_mut(&key).unwrap() returns the slot.
IndexMutByKey(op, k, cap) ==
    /\ Idle
    /\ \E pos \in 1 .. Len(tbl) + 1 :
          LET vacant == FindValue(tbl, k) = {}
              t == IF vacant THEN InsertAt(tbl, pos, Entry(k, Null)) ELSE tbl
              g == FindValue(t, k)
          IN /\ vacant => Len(tbl) < cap
             /\ tbl' = t
             /\ IF g = {}
                THEN slot' = 0 /\ res' = Res(op, k, "panic", Null, 0)
                ELSE slot' = Min(g) /\ res' = Res(op, k, "ok", t[Min(g)].v, Min(g))
    /\ UNCHANGED rs

\* impl IndexMut<Value> for Table
IndexMutValue(k, cap) == IndexMutByKey("index_mut_value", k, cap)

\* impl IndexMut<usize> for Table
IndexMutUsize(i, cap) == IndexMutByKey("index_mut_usize", UsizeKey(i), cap)

\* impl IndexMut<&str> for Table: insert(String(text), Null) unless
\* contains_key(text), then get_mut(text).unwrap().
IndexMutStr(s, cap) ==
    /\ Idle
    /\ \E pos \in 1 .. Len(tbl) + 1 :
          LET absent == FindStr(tbl, s) = {}
              t == IF absent THEN MapInsert(tbl, StrKey(s), Null, pos) ELSE tbl
          IN /\ absent => Len(tbl) < cap
             /\ tbl' = t
             /\ IF FindStr(t, s) = {}
                THEN slot' = 0 /\ res' = Res("index_mut_str", StrKey(s), "panic", Null, 0)
                ELSE \E i \in FindStr(t, s) :
                        /\ slot' = i
                        /\ res' = Res("index_mut_str", StrKey(s), "ok", t[i].v, i)
    /\ UNCHANGED rs

\* `table[..] = v`: the write through the slot index_mut returned, which
\* ends the borrow.
AssignSlot(v) ==
    /\ slot # 0
    /\ tbl' = [tbl EXCEPT ![slot].v = v]
    /\ res' = Res("assign", res.key, "ok", v, slot)
    /\ slot' = 0
    /\ UNCHANGED rs

\* table.clear()
Clear ==
    /\ Idle
    /\ tbl' = Table_new
    /\ res' = Res("clear", Null, "ok", Null, 0)
    /\ UNCHANGED <<rs, slot>>

TableInit ==
    /\ rs \in 0 .. NumKeys - 1
    /\ tbl = Table_new
    /\ res = Res("new", Null, "ok", Null, 0)
    /\ slot = 0

NoCmp == [done |-> FALSE, eq |-> FALSE, ha |-> << >>, hb |-> << >>]
CmpIdle == va = Null /\ vb = Null /\ cmp = NoCmp
BuildIdle == pairs = {} /\ left1 = {} /\ left2 = {} /\ t1 = Table_new /\ t2 = Table_new
VecIdle == assigned = << >>
NoLast == [op |-> "new", h |-> 0, alloc |-> 0, count |-> 0]
ArcIdle == heap = << >> /\ holder = << >> /\ observed = << >> /\ last = NoLast

cmpVars == <<va, vb, cmp>>
buildVars == <<pairs, left1, left2, t1, t2>>
arcVars == <<heap, holder, observed, last>>
tableVars == <<rs, tbl, res, slot>>

Init == TableInit /\ CmpIdle /\ BuildIdle /\ VecIdle /\ ArcIdle

notTable == <<cmpVars, buildVars, assigned, arcVars>>

StepInsert == (\E k \in Keys, v \in Vals : Insert(k, v, MaxEntries)) /\ UNCHANGED notTable
StepGetValue == (\E k \in Keys : GetValue(k)) /\ UNCHANGED notTable
StepGetStr == (\E s \in Texts : GetStr(s)) /\ UNCHANGED notTable
StepContainsKeyStr == (\E s \in Texts : ContainsKeyStr(s)) /\ UNCHANGED notTable
StepIndexValue == (\E k \in Keys : IndexValue(k)) /\ UNCHANGED notTable
StepIndexUsize == (\E i \in Indices : IndexUsize(i)) /\ UNCHANGED notTable
StepIndexStr == (\E s \in Texts : IndexStr(s)) /\ UNCHANGED notTable
StepIndexMutValue == (\E k \in Keys : IndexMutValue(k, MaxEntries)) /\ UNCHANGED notTable
StepIndexMutUsize == (\E i \in Indices : IndexMutUsize(i, MaxEntries)) /\ UNCHANGED notTable
StepIndexMutStr == (\E s \in Texts : IndexMutStr(s, MaxEntries)) /\ UNCHANGED notTable
StepAssignSlot == (\E v \in Vals : AssignSlot(v)) /\ UNCHANGED notTable
StepClear == Clear /\ UNCHANGED notTable

Next ==
    \/ StepInsert
    \/ StepGetValue
    \/ StepGetStr
    \/ StepContainsKeyStr
    \/ StepIndexValue
    \/ StepIndexUsize
    \/ StepIndexStr
    \/ StepIndexMutValue
    \/ StepIndexMutUsize
    \/ StepIndexMutStr
    \/ StepAssignSlot
    \/ StepClear

Spec == Init /\ [][Next]_vars

-----------------------------------------------------------------------------
(* Properties of the table operations (specification Spec).                *)

\* Some entry of t has a key equal (Value's ==) to k.
Present(t, k) == \E i \in DOMAIN t : ValueEq(t[i].k, k)

\* t without its entry at position i.
RemoveAt(t, i) == SubSeq(t, 1, i - 1) \o SubSeq(t, i + 1, Len(t))

ReadIndexOps == {"index_value", "index_usize", "index_str"}
WriteIndexOps == {"index_mut_value", "index_mut_usize", "index_mut_str"}
TextOps == {"get_str", "contains_key_str", "index_str", "index_mut_str"}

\* C3: an entry stored under a key Value::Table(t) is found, and its value
\* returned, by get and by read-index with every Value::Table(t') equal to
\* that key, whatever the iteration order of t'.
C3_TableAsKey ==
    (res.op \in {"get", "index_value"} /\ res.key.tag = "Table") =>
        \A i \in DOMAIN tbl :
            ValueEq(tbl[i].k, res.key) => res.out = "some" /\ res.val = tbl[i].v

\* C5: index_mut (by Value, by integer, by text) on an absent key returns a
\* slot holding Null under that key in a table that is otherwise unchanged
\* and one longer; on a present key it returns the slot of that key with the
\* stored value and leaves the table unchanged.
C5_WriteIndexAutoVivifies ==
    [][(slot = 0 /\ res'.op \in WriteIndexOps) =>
          IF ~Present(tbl, res'.key)
          THEN /\ res'.out = "ok"
               /\ slot' \in DOMAIN tbl'
               /\ tbl'[slot'] = Entry(res'.key, Null)
               /\ Len(tbl') = Len(tbl) + 1
               /\ RemoveAt(tbl', slot') = tbl
          ELSE /\ res'.out = "ok"
               /\ tbl' = tbl
               /\ slot' \in DOMAIN tbl
               /\ ValueEq(tbl[slot'].k, res'.key)
               /\ res'.val = tbl[slot'].v]_vars

\* C7: a read index (by Value, by integer, by text) returns the value stored
\* under the key when the key is present, panics when it is absent, and
\* leaves the table unchanged.
C7_ReadIndex ==
    [][(slot = 0 /\ res'.op \in ReadIndexOps) =>
          /\ tbl' = tbl
          /\ IF Present(tbl, res'.key)
             THEN /\ res'.out = "some"
                  /\ \E i \in DOMAIN tbl :
                        ValueEq(tbl[i].k, res'.key) /\ res'.val = tbl[i].v
             ELSE res'.out = "panic"]_vars

\* C8: the entry under the key Value::String(s) is the one get(s) and
\* table[s] read and table[s] = v writes, and what a write-index by the text
\* s or by Value::String(s) stored is found under Value::String(s) and
\* under the text s.
C8_StringKeyInterchangeable ==
    /\ (res.op \in {"get_str", "index_str"}) =>
          \A i \in DOMAIN tbl :
              tbl[i].k = res.key => res.out = "some" /\ res.hit = i
    /\ (res.op = "index_mut_str" /\ res.out = "ok") => tbl[slot].k = res.key
    /\ (res.op = "assign" /\ res.key.tag = "String") =>
          /\ \E i \in FindValue(tbl, res.key) : tbl[i].v = res.val
          /\ \A i \in FindStr(tbl, res.key.s) : tbl[i].v = res.val
          /\ FindStr(tbl, res.key.s) # {}

\* C10: the entry a text-key access (get, contains_key, read index, write
\* index) selects always has a String key with that text.
C10_TextNeverMatchesNonString ==
    (res.op \in TextOps /\ res.hit # 0) =>
        /\ tbl[res.hit].k.tag = "String"
        /\ tbl[res.hit].k.s = res.key.s

-----------------------------------------------------------------------------
(* Two values compared and hashed (specification SpecCmp).                 *)

Floats == {FNaN, FZero, FNegZero, FOne, FOneHalf}

\* Values of every variant, tables nested in tables among them.
CmpVals ==
    {Null, Bool(TRUE), Bool(FALSE), Usize(0), Usize(1), U64(0), I64(-1),
     String(EmptyText), String(TextH),
     VTable(Table_new), VTable(TableAB), VTable(TableBA),
     VTable(<<Entry(String(TextH), VTable(TableAB))>>),
     VTable(<<Entry(String(TextH), VTable(TableBA))>>)}
    \cup {VF64(f) : f \in Floats}

\* a == b, and what a.hash(state) and b.hash(state) feed into the hasher.
Compare ==
    /\ ~cmp.done
    /\ cmp' = [done |-> TRUE, eq |-> ValueEq(va, vb),
               ha |-> ValueFeed(va), hb |-> ValueFeed(vb)]
    /\ UNCHANGED <<va, vb, tableVars, buildVars, assigned, arcVars>>

CmpInit ==
    /\ va \in CmpVals
    /\ vb \in CmpVals
    /\ cmp = NoCmp
    /\ TableInit /\ BuildIdle /\ VecIdle /\ ArcIdle

CmpNext == Compare

SpecCmp == CmpInit /\ [][CmpNext]_vars

\* C1: values that are equal feed the same bytes into the hasher, and so
\* hash equally.
C1_HashEqConsistent ==
    (cmp.done /\ cmp.eq) =>
        /\ cmp.ha = cmp.hb
        /\ MapHash(rs, cmp.ha) = MapHash(rs, cmp.hb)

\* C9: a value compares equal to itself, a wrapped NaN included.
C9_EqReflexive == (cmp.done /\ va = vb) => cmp.eq

-----------------------------------------------------------------------------
(* Two tables built from the same pairs (specification SpecBuild).         *)

\* Key/value pairs with distinct keys.
PairPool == {Entry(Usize(0), VF64(FOne)), Entry(Usize(1), String(TextW)),
             Entry(String(TextH), Null), Entry(VF64(FOne), Usize(0))}

\* An insert into the first table: a new key takes any place of the
\* map's iteration order.
BuildInsert1(p) ==
    /\ p \in left1
    /\ \E pos \in 1 .. Len(t1) + 1 : t1' = MapInsert(t1, p.k, p.v, pos)
    /\ left1' = left1 \ {p}
    /\ UNCHANGED <<pairs, left2, t2, tableVars, cmpVars, assigned, arcVars>>

\* An insert into the second table.
BuildInsert2(p) ==
    /\ p \in left2
    /\ \E pos \in 1 .. Len(t2) + 1 : t2' = MapInsert(t2, p.k, p.v, pos)
    /\ left2' = left2 \ {p}
    /\ UNCHANGED <<pairs, left1, t1, tableVars, cmpVars, assigned, arcVars>>

BuildInit ==
    /\ pairs \in SUBSET PairPool
    /\ left1 = pairs
    /\ left2 = pairs
    /\ t1 = Table_new
    /\ t2 = Table_new
    /\ TableInit /\ CmpIdle /\ VecIdle /\ ArcIdle

StepBuildInsert1 == \E p \in PairPool : BuildInsert1(p)
StepBuildInsert2 == \E p \in PairPool : BuildInsert2(p)

BuildNext == StepBuildInsert1 \/ StepBuildInsert2

SpecBuild == BuildInit /\ [][BuildNext]_vars

\* C2: two tables holding the same pairs, inserted in any two orders, are
\* equal and hash equally.
C2_OrderIndependent ==
    (left1 = {} /\ left2 = {}) =>
        /\ TableEq(t1, t2)
        /\ TableFeed(t1) = TableFeed(t2)

-----------------------------------------------------------------------------
(* Positional writes and reads of one table, as in tests::test_vec3        *)
(* (specification SpecVec).  assigned[i] is the value last assigned to     *)
(* table[i] since the table was empty.                                     *)

VecVals == {VF64(FOne), VF64(FTwo)}

Unassigned == [set |-> FALSE, v |-> Null]

\* The index_mut of `vec3[i] = v`.
VecIndexMut(i) ==
    /\ IndexMutUsize(i, MaxIndex + 1)
    /\ UNCHANGED <<assigned, cmpVars, buildVars, arcVars>>

\* The assignment of `vec3[i] = v`.
VecAssign(v) ==
    /\ AssignSlot(v)
    /\ assigned' = [assigned EXCEPT ![res.key.n] = [set |-> TRUE, v |-> v]]
    /\ UNCHANGED <<cmpVars, buildVars, arcVars>>

\* The read vec3[i].
VecIndex(i) ==
    /\ IndexUsize(i)
    /\ UNCHANGED <<assigned, cmpVars, buildVars, arcVars>>

\* vec3.clear()
VecClear ==
    /\ Clear
    /\ assigned' = [i \in Indices |-> Unassigned]
    /\ UNCHANGED <<cmpVars, buildVars, arcVars>>

VecInit ==
    /\ TableInit
    /\ assigned = [i \in Indices |-> Unassigned]
    /\ CmpIdle /\ BuildIdle /\ ArcIdle

StepVecIndexMut == \E i \in Indices : VecIndexMut(i)
StepVecAssign == \E v \in VecVals : VecAssign(v)
StepVecIndex == \E i \in Indices : VecIndex(i)

VecNext == StepVecIndexMut \/ StepVecAssign \/ StepVecIndex \/ VecClear

SpecVec == VecInit /\ [][VecNext]_vars

\* C6: after assignments table[i] = v to integer indices of an empty table,
\* the read of a written index returns the value last assigned to it, the
\* length is the number of distinct indices written, and after clear() the
\* length is 0.
C6_IndexedRoundTrip ==
    /\ (res.op = "index_usize" /\ assigned[res.key.n].set) =>
          res.out = "some" /\ res.val = assigned[res.key.n].v
    /\ slot = 0 => Len(tbl) = Cardinality({i \in Indices : assigned[i].set})
    /\ res.op = "clear" => Len(tbl) = 0

\* The three indices 0, 1, 2 are written, one of them again with another
\* value, and a read returns the value last assigned.
C6_Witness ==
    /\ res.op = "index_usize"
    /\ res.out = "some"
    /\ Len(tbl) = 3
    /\ \E i \in DOMAIN tbl : tbl[i].v # res.val

-----------------------------------------------------------------------------
(* Arc<Table> handles sharing table payloads, mutated as in                *)
(* tests::bench_overwrite_arc (specification SpecArc).  heap[a] is the     *)
(* payload of allocation a, holder[h] the allocation handle h points to    *)
(* (0: no handle), observed[h] the entries h had after its own last write  *)
(* or, for a clone, when it was made.                                      *)

Holders == 1 .. NumHolders
Allocs == 1 .. NumHolders
ArcVals == {VF64(FOne), VF64(FTwo), Null}

\* The strong count of allocation a.
StrongCount(a) == Cardinality({h \in Holders : holder[h] = a})

Free == [live |-> FALSE, t |-> Table_new]

\* A make_mut without the copy: the write lands in the shared allocation.
MakeMutInPlace(h) == holder[h]

\* Arc::make_mut: the allocation itself when h is its only owner, else a
\* new allocation holding a clone of the table.
MakeMutTarget(h) ==
    IF StrongCount(holder[h]) = 1 THEN holder[h]
    ELSE Min({a \in Allocs : ~heap[a].live})

\* #[derive(Clone)] on Table: the same entries.
Table_clone(t) == t

\* `table[i] = v` on the table t: index_mut, then the write of the slot.
IndexAssignUsize(t, i, v, pos) ==
    LET f == FindValue(t, UsizeKey(i))
        u == IF f = {} THEN InsertAt(t, pos, Entry(UsizeKey(i), Null)) ELSE t
        g == FindValue(u, UsizeKey(i))
    IN [u EXCEPT ![Min(g)].v = v]

\* Arc::clone: handle g shares the allocation of h.
ArcClone(h, g) ==
    /\ holder[h] # 0
    /\ holder[g] = 0
    /\ holder' = [holder EXCEPT ![g] = holder[h]]
    /\ observed' = [observed EXCEPT ![g] = heap[holder[h]].t]
    /\ last' = [op |-> "clone", h |-> g, alloc |-> holder[h],
                count |-> StrongCount(holder[h])]
    /\ UNCHANGED <<heap, tableVars, cmpVars, buildVars, assigned>>

\* The drop of handle h: the last owner frees the allocation.
ArcDrop(h) ==
    /\ holder[h] # 0
    /\ holder' = [holder EXCEPT ![h] = 0]
    /\ observed' = [observed EXCEPT ![h] = Table_new]
    /\ heap' = IF StrongCount(holder[h]) = 1
               THEN [heap EXCEPT ![holder[h]] = Free] ELSE heap
    /\ last' = [op |-> "drop", h |-> h, alloc |-> holder[h],
                count |-> StrongCount(holder[h])]
    /\ UNCHANGED <<tableVars, cmpVars, buildVars, assigned>>

\* Arc::make_mut(&mut a)[0] = v
ArcMakeMutAssign(h, v) ==
    /\ holder[h] # 0
    /\ \E pos \in 1 .. Len(heap[holder[h]].t) + 1 :
          LET a == MakeMutTarget(h)
              t == IndexAssignUsize(Table_clone(heap[holder[h]].t), 0, v, pos)
          IN /\ heap' = [heap EXCEPT ![a] = [live |-> TRUE, t |-> t]]
             /\ holder' = [holder EXCEPT ![h] = a]
             /\ observed' = [observed EXCEPT ![h] = t]
    /\ last' = [op |-> "make_mut", h |-> h, alloc |-> holder[h],
                count |-> StrongCount(holder[h])]
    /\ UNCHANGED <<tableVars, cmpVars, buildVars, assigned>>

\* let mut a = Arc::new(Table::new());
ArcInit ==
    /\ heap = [a \in Allocs |-> IF a = 1 THEN [live |-> TRUE, t |-> Table_new] ELSE Free]
    /\ holder = [h \in Holders |-> IF h = 1 THEN 1 ELSE 0]
    /\ observed = [h \in Holders |-> Table_new]
    /\ last = NoLast
    /\ TableInit /\ CmpIdle /\ BuildIdle /\ VecIdle

StepArcClone == \E h \in Holders, g \in Holders : ArcClone(h, g)
StepArcDrop == \E h \in Holders : ArcDrop(h)
StepArcMakeMutAssign == \E h \in Holders, v \in ArcVals : ArcMakeMutAssign(h, v)

ArcNext == StepArcClone \/ StepArcDrop \/ StepArcMakeMutAssign

SpecArc == ArcInit /\ [][ArcNext]_vars

\* C4: a write through Arc::make_mut never changes what another handle
\* observes: every handle's table holds the entries that handle last wrote
\* (or had when it was cloned); the write is done in place when the handle
\* was the only owner and on a private copy when the payload was shared.
C4_CopyOnWrite ==
    /\ \A h \in Holders :
          holder[h] # 0 =>
              heap[holder[h]].live /\ heap[holder[h]].t = observed[h]
    /\ last.op = "make_mut" =>
          /\ last.count = 1 => holder[last.h] = last.alloc
          /\ last.count > 1 => /\ holder[last.h] # last.alloc
                               /\ StrongCount(holder[last.h]) = 1
                               /\ StrongCount(last.alloc) = last.count - 1

\* A handle has written to a payload it shared, and another handle still
\* observes the entries from before that write.
C4_Witness ==
    /\ last.op = "make_mut"
    /\ last.count > 1
    /\ \E g \in Holders :
          /\ holder[g] = last.alloc
          /\ heap[holder[g]].t # heap[holder[last.h]].t
          /\ heap[holder[g]].t # Table_new

====
